---------------------------- MODULE Spec2Model ----------------------------
(***************************************************************************)
(* Newton-Raphson root finder: newton_raphson(f, fp, x0, eps, max_iter) of *)
(* src/newton_interativo.py, modelled one loop pass per step.              *)
(*                                                                         *)
(* Python floats are modelled by exact values n/d * 10^e (plus inf and     *)
(* nan), so that the stability threshold 1e-15 and ordinary iterates live  *)
(* in one ordered domain.  The inputs of the model are chosen so that the  *)
(* float operations of the code are exact on them (small integers and      *)
(* halves), hence the exact values are the values the code computes.       *)
(***************************************************************************)
EXTENDS Integers, Sequences, FiniteSets, TLC

(***************************************************************************)
(* float values                                                            *)
(***************************************************************************)
RECURSIVE Gcd(_, _)
Gcd(a, b) == IF b = 0 THEN a ELSE Gcd(b, a % b)

IAbs(i) == IF i < 0 THEN -i ELSE i

Sgn(i) == IF i < 0 THEN -1 ELSE IF i = 0 THEN 0 ELSE 1

RECURSIVE Pow10(_)
Pow10(g) == IF g = 0 THEN 1 ELSE 10 * Pow10(g - 1)

\* the canonical form of n/d * 10^e, n # 0, d > 0, gcd(n, d) = 1:
\* d coprime to 10 and n not a multiple of 10
RECURSIVE Canon(_, _, _)
Canon(n, d, e) ==
    IF d % 2 = 0 THEN Canon(n * 5, d \div 2, e - 1)
    ELSE IF d % 5 = 0 THEN Canon(n * 2, d \div 5, e - 1)
    ELSE IF n % 10 = 0 THEN Canon(n \div 10, d, e + 1)
    ELSE [t |-> "num", n |-> n, d |-> d, e |-> e]

\* the float n * 10^e, for n = 0 and e = 0 or n not a multiple of 10
Finite(n, e) == [t |-> "num", n |-> n, d |-> 1, e |-> e]

Zero == [t |-> "num", n |-> 0, d |-> 1, e |-> 0]

\* the float n/d * 10^e (d # 0)
Num(n, d, e) ==
    IF n = 0 THEN Zero
    ELSE LET g == Gcd(IAbs(n), IAbs(d))
         IN  Canon(Sgn(d) * (n \div g), IAbs(d) \div g, e)

Flt(i) == Num(i, 1, 0)

\* float('nan')
NaN == [t |-> "nan", n |-> 0, d |-> 1, e |-> 0]

\* float('inf') and -float('inf')
Inf == [t |-> "inf", n |-> 1, d |-> 1, e |-> 0]

NegInf == [t |-> "inf", n |-> -1, d |-> 1, e |-> 0]

IsNaN(a) == a.t = "nan"

IsFinite(a) == a.t = "num"

\* -a
Neg(a) == [a EXCEPT !.n = -a.n]

\* abs(a)
Abs(a) == [a EXCEPT !.n = IAbs(a.n)]

\* l * 10^g < r for integers l, r and g >= 0, without forming l * 10^g
RECURSIVE ScaledLt(_, _, _)
ScaledLt(l, g, r) ==
    IF g = 0 THEN l < r ELSE ScaledLt(l, g - 1, (r + 9) \div 10)

\* l < r * 10^g for integers l, r and g >= 0, without forming r * 10^g
RECURSIVE LtScaled(_, _, _)
LtScaled(l, r, g) ==
    IF g = 0 THEN l < r ELSE LtScaled(l \div 10, r, g - 1)

\* a < b on floats: False as soon as one side is nan
Lt(a, b) ==
    IF IsNaN(a) \/ IsNaN(b) THEN FALSE
    ELSE IF a.t = "inf" THEN a.n < 0 /\ ~(b.t = "inf" /\ b.n < 0)
    ELSE IF b.t = "inf" THEN b.n > 0
    ELSE LET l == a.n * b.d
             r == b.n * a.d
         IN  IF a.e >= b.e THEN ScaledLt(l, a.e - b.e, r)
             ELSE LtScaled(l, r, b.e - a.e)

\* a > b on floats
Gt(a, b) == Lt(b, a)

\* a - b on floats
Sub(a, b) ==
    IF IsNaN(a) \/ IsNaN(b) THEN NaN
    ELSE IF a.t = "inf" THEN (IF b.t = "inf" /\ b.n = a.n THEN NaN ELSE a)
    ELSE IF b.t = "inf" THEN Neg(b)
    ELSE LET e == IF a.e < b.e THEN a.e ELSE b.e
         IN  Num(a.n * Pow10(a.e - e) * b.d - b.n * Pow10(b.e - e) * a.d,
                 a.d * b.d, e)

\* a + b on floats
Add(a, b) == Sub(a, Neg(b))

\* a * b on floats
Mul(a, b) ==
    IF IsNaN(a) \/ IsNaN(b) THEN NaN
    ELSE IF a.t = "inf" \/ b.t = "inf"
         THEN (IF a.n = 0 \/ b.n = 0 THEN NaN
               ELSE IF Sgn(a.n) = Sgn(b.n) THEN Inf ELSE NegInf)
    ELSE Num(a.n * b.n, a.d * b.d, a.e + b.e)

\* a / b on floats, b # 0 (Python raises ZeroDivisionError on b = 0, which the
\* callers below test before dividing)
Div(a, b) ==
    IF IsNaN(a) \/ IsNaN(b) THEN NaN
    ELSE IF a.t = "inf" THEN (IF b.t = "inf" THEN NaN
                              ELSE IF Sgn(b.n) = a.n THEN Inf ELSE NegInf)
    ELSE IF b.t = "inf" THEN Zero
    ELSE Num(a.n * b.d, a.d * b.n, a.e - b.e)


One == Flt(1)

Two == Flt(2)

(***************************************************************************)
(* the inputs                                                              *)
(***************************************************************************)
\* largest max_iter of the model
MaxIter == 4

\* the initial guesses x0
X0Values == {Flt(0), Flt(1)}

\* the tolerances eps
EpsValues == {Flt(1), Flt(2)}

\* the exceptions the callables raise: numeric faults (a math domain error,
\* a division by zero) and NameError (an expression with an unbound symbol)
Exceptions == {"ValueError", "ZeroDivisionError", "NameError"}

\* a call that raises exc
Raise(exc) == [t |-> exc, n |-> 0, d |-> 1, e |-> 0]

IsRaise(o) == o.t \in Exceptions

\* what f(x) may do: return one of these floats, or raise
FOutcomes ==
    {Finite(0, 0), Finite(1, 0), Finite(2, 0), Finite(11, 0),
     Raise("ValueError"), Raise("ZeroDivisionError"), Raise("NameError")}

\* what fp(x) may do: return one of these floats (5e-16 is below the
\* stability threshold), or raise
FpOutcomes ==
    {Finite(0, 0), Finite(5, -16), Finite(1, 0), Finite(2, 0), Finite(-1, 0),
     Raise("ValueError"), Raise("ZeroDivisionError"), Raise("NameError")}

\* fp was not called (f raised first)
NotCalled == [t |-> "none", n |-> 0, d |-> 1, e |-> 0]

(***************************************************************************)
(* the state of one call newton_raphson(f, fp, x0, eps, max_iter)          *)
(***************************************************************************)
VARIABLES
    f,            \* the callable f, as a table: the points evaluated so far
    fp,           \* the callable fp, likewise
    x0,           \* parameter x0
    eps,          \* parameter eps
    max_iter,     \* parameter max_iter
    xn,           \* local xn
    iters,        \* local iters: the trace, tuples (k, xn, fxn, err)
    err_anterior, \* local err_anterior
    k,            \* the loop variable (0 before the first pass)
    pc,           \* "loop", "returned" or "raised"
    ret,          \* the returned tuple (root, iterations, converged, iters)
    exc,          \* the exception that left the call, when pc = "raised"
    out,          \* the lines printed to standard output
    divs          \* how many times fxn / fpxn was evaluated

vars == <<f, fp, x0, eps, max_iter, xn, iters, err_anterior, k, pc, ret, exc,
          out, divs>>

\* the result of calling the pure callable tab at x: what the table holds,
\* or, at a new point, any outcome of outs
Call(tab, x, outs) == IF x \in DOMAIN tab THEN {tab[x]} ELSE outs

\* the table tab once the call at x has returned or raised o
Memo(tab, x, o) == tab @@ (x :> o)

\* an except clause that names ValueError alone
CaughtValueError(e) == e \in {"ValueError"}

\* the except clause: except (ValueError, ZeroDivisionError, OverflowError)
Caught(e) == e \in {"ValueError", "ZeroDivisionError", "OverflowError"}

\* the stability threshold 1e-15
DerivTol == Num(1, 1, -15)

\* abs(fpxn) < 1e-15
NearZero(fpxn) == Lt(Abs(fpxn), DerivTol)

\* the step taken with the wrong sign
NewtonStepAdd(x, fxn, fpxn) == Add(x, Div(fxn, fpxn))

\* xn1 = xn - fxn / fpxn
NewtonStep(x, fxn, fpxn) == Sub(x, Div(fxn, fpxn))

\* err = abs(xn1 - xn)
StepError(xn1, x) == Abs(Sub(xn1, x))

\* the test err <= eps
ConvergedLe(err, tol) == ~Lt(tol, err)

\* err < eps
Converged(err, tol) == Lt(err, tol)

\* the heuristic armed one pass early
DivergingFrom3(err, prev, i) == Gt(err, Mul(prev, Flt(10))) /\ i >= 3

\* err > err_anterior * 10 and k > 3
Diverging(err, prev, i) == Gt(err, Mul(prev, Flt(10))) /\ i > 3

\* the record of a pass in which f or fp raised: (k, xn, nan, nan)
FaultRecord(i, x) == <<i, x, NaN, NaN>>

\* the record of the fault, appended where the derivative is near zero
SingularRecordNoFxn(i, x, fxn) == <<i, x, NaN, NaN>>

\* the record of a pass with a near-zero derivative: (k, xn, fxn, nan)
SingularRecord(i, x, fxn) == <<i, x, fxn, NaN>>

\* the record numbered from zero
StepRecordZeroBased(i, x, fxn, err) == <<i - 1, x, fxn, err>>

\* the record of a Newton step: (k, xn, fxn, err)
StepRecord(i, x, fxn, err) == <<i, x, fxn, err>>

\* the lines printed
PrintFault(o, i, e) == Append(o, [msg |-> "Erro ao calcular", k |-> i, e |-> e])

PrintSingular(o, i) ==
    Append(o, [msg |-> "Derivada muito proxima de zero", k |-> i, e |-> ""])

PrintProgress(o, i) == Append(o, [msg |-> "Iteracao", k |-> i, e |-> ""])

PrintConverged(o, i) == Append(o, [msg |-> "Convergiu", k |-> i, e |-> ""])

PrintDivergence(o, i) ==
    Append(o, [msg |-> "Possivel divergencia", k |-> i, e |-> ""])

PrintExhausted(o, m) == Append(o, [msg |-> "Nao convergiu", k |-> m, e |-> ""])

\* the returned tuples
FaultReturn(x, i, tr) == <<x, i, FALSE, tr>>

SingularReturn(x, i, tr) == <<x, i, FALSE, tr>>

\* the old iterate returned as root
ConvergedReturnOld(x, xn1, i, tr) == <<x, i, TRUE, tr>>

ConvergedReturn(x, xn1, i, tr) == <<xn1, i, TRUE, tr>>

DivergedReturn(x, xn1, i, tr) == <<xn1, i, FALSE, tr>>

ExhaustedReturn(x, m, i, tr) == <<x, m, FALSE, tr>>

\* a range that runs one pass too many
LoopGuardInclusive(i, m) == i <= m

\* for k in range(1, max_iter + 1): there is another pass
LoopGuard(i, m) == i < m

Init ==
    /\ f = <<>>
    /\ fp = <<>>
    /\ x0 \in X0Values
    /\ eps \in EpsValues
    /\ max_iter \in -1 .. MaxIter
    /\ xn = x0
    /\ iters = <<>>
    /\ err_anterior = Inf
    /\ k = 0
    /\ pc = "loop"
    /\ ret = <<>>
    /\ exc = ""
    /\ out = <<>>
    /\ divs = 0

\* the outcomes of fp(xn) in a pass where f(xn) gave fo
FpCalls(fo) == IF IsRaise(fo) THEN {NotCalled} ELSE Call(fp, xn, FpOutcomes)

\* the loop takes another pass
InLoop == pc = "loop" /\ LoopGuard(k, max_iter)

\* the head of a pass: k advances, f(xn) is called and returns or raises fo,
\* and unless f raised fp(xn) is called and returns or raises fpo
Evaluate(fo, fpo) ==
    /\ k' = k + 1
    /\ f' = Memo(f, xn, fo)
    /\ fp' = IF IsRaise(fo) THEN fp ELSE Memo(fp, xn, fpo)
    /\ UNCHANGED <<x0, eps, max_iter>>

\* the exception of a pass in which f or fp raised
Raising(fo, fpo) == IF IsRaise(fo) THEN fo.t ELSE fpo.t

\* lines 53-59: f or fp raised an exception the except clause catches
EvalFaultWith(fo, fpo) ==
    /\ InLoop
    /\ Raising(fo, fpo) \in Exceptions
    /\ Caught(Raising(fo, fpo))
    /\ Evaluate(fo, fpo)
    /\ out' = PrintFault(out, k', Raising(fo, fpo))
    /\ iters' = Append(iters, FaultRecord(k', xn))
    /\ ret' = FaultReturn(xn, k', iters')
    /\ pc' = "returned"
    /\ UNCHANGED <<xn, err_anterior, exc, divs>>

\* f or fp raised an exception the except clause does not catch: it leaves
\* the call
EvalEscapeWith(fo, fpo) ==
    /\ InLoop
    /\ Raising(fo, fpo) \in Exceptions
    /\ ~Caught(Raising(fo, fpo))
    /\ Evaluate(fo, fpo)
    /\ exc' = Raising(fo, fpo)
    /\ pc' = "raised"
    /\ UNCHANGED <<xn, iters, err_anterior, ret, out, divs>>

\* lines 62-65: the derivative is too close to zero
SingularDerivativeWith(fo, fpo) ==
    /\ InLoop
    /\ ~IsRaise(fo) /\ ~IsRaise(fpo)
    /\ NearZero(fpo)
    /\ Evaluate(fo, fpo)
    /\ out' = PrintSingular(out, k')
    /\ iters' = Append(iters, SingularRecord(k', xn, fo))
    /\ ret' = SingularReturn(xn, k', iters')
    /\ pc' = "returned"
    /\ UNCHANGED <<xn, err_anterior, exc, divs>>

\* lines 68-72: the Newton step, of error err, and its record
Step(fo, fpo, err) ==
    /\ InLoop
    /\ ~IsRaise(fo) /\ ~IsRaise(fpo)
    /\ ~NearZero(fpo)
    /\ Evaluate(fo, fpo)
    /\ divs' = divs + 1
    /\ iters' = Append(iters, StepRecord(k', xn, fo, err))
    /\ exc' = exc

\* lines 75-80: the step to xn1 is below the tolerance
ConvergeAt(fo, fpo, xn1, err) ==
    /\ Step(fo, fpo, err)
    /\ Converged(err, eps)
    /\ out' = PrintConverged(PrintProgress(out, k'), k')
    /\ ret' = ConvergedReturn(xn, xn1, k', iters')
    /\ pc' = "returned"
    /\ UNCHANGED <<xn, err_anterior>>

\* lines 75-85: the step to xn1 grew tenfold after the third pass
DivergeAt(fo, fpo, xn1, err) ==
    /\ Step(fo, fpo, err)
    /\ ~Converged(err, eps)
    /\ Diverging(err, err_anterior, k')
    /\ out' = PrintDivergence(PrintProgress(out, k'), k')
    /\ ret' = DivergedReturn(xn, xn1, k', iters')
    /\ pc' = "returned"
    /\ UNCHANGED <<xn, err_anterior>>

\* lines 75-88: the loop goes on from xn1
ContinueAt(fo, fpo, xn1, err) ==
    /\ Step(fo, fpo, err)
    /\ ~Converged(err, eps)
    /\ ~Diverging(err, err_anterior, k')
    /\ out' = PrintProgress(out, k')
    /\ err_anterior' = err
    /\ xn' = xn1
    /\ UNCHANGED <<pc, ret>>

\* the three ways on from a Newton step, with xn1 and err computed
ConvergeWith(fo, fpo) ==
    ConvergeAt(fo, fpo, NewtonStep(xn, fo, fpo),
               StepError(NewtonStep(xn, fo, fpo), xn))

DivergeWith(fo, fpo) ==
    DivergeAt(fo, fpo, NewtonStep(xn, fo, fpo),
               StepError(NewtonStep(xn, fo, fpo), xn))

ContinueWith(fo, fpo) ==
    ContinueAt(fo, fpo, NewtonStep(xn, fo, fpo),
               StepError(NewtonStep(xn, fo, fpo), xn))

\* lines 90-91: the loop is over
Exhaust ==
    /\ pc = "loop"
    /\ ~LoopGuard(k, max_iter)
    /\ out' = PrintExhausted(out, max_iter)
    /\ ret' = ExhaustedReturn(xn, max_iter, k, iters)
    /\ pc' = "returned"
    /\ UNCHANGED <<f, fp, x0, eps, max_iter, xn, iters, err_anterior, k, exc,
                   divs>>

\* one pass of the loop, by the way it ends
EvalFault ==
    \E fo \in Call(f, xn, FOutcomes) : \E fpo \in FpCalls(fo) :
        EvalFaultWith(fo, fpo)

EvalEscape ==
    \E fo \in Call(f, xn, FOutcomes) : \E fpo \in FpCalls(fo) :
        EvalEscapeWith(fo, fpo)

SingularDerivative ==
    \E fo \in Call(f, xn, FOutcomes) : \E fpo \in FpCalls(fo) :
        SingularDerivativeWith(fo, fpo)

Converge ==
    \E fo \in Call(f, xn, FOutcomes) : \E fpo \in FpCalls(fo) :
        ConvergeWith(fo, fpo)

Diverge ==
    \E fo \in Call(f, xn, FOutcomes) : \E fpo \in FpCalls(fo) :
        DivergeWith(fo, fpo)

Continue ==
    \E fo \in Call(f, xn, FOutcomes) : \E fpo \in FpCalls(fo) :
        ContinueWith(fo, fpo)

Next ==
    \/ EvalFault
    \/ EvalEscape
    \/ SingularDerivative
    \/ Converge
    \/ Diverge
    \/ Continue
    \/ Exhaust

Spec == Init /\ [][Next]_vars

(***************************************************************************)
(* properties                                                              *)
(***************************************************************************)
\* the last record of the trace and its fields (k, xn, fxn, err)
LastRecord == iters[Len(iters)]

RecK(r) == r[1]

RecXn(r) == r[2]

RecFxn(r) == r[3]

RecErr(r) == r[4]

\* the last line printed
LastLine == out[Len(out)].msg

\* the fields of the returned tuple
Root == ret[1]

Count == ret[2]

ConvergedFlag == ret[3]

Trace == ret[4]

\* the faults the specification calls numeric: a domain error, a division by
\* zero, an overflow
NumericFaults == {"ValueError", "ZeroDivisionError", "OverflowError"}

\* the call has returned after at least one evaluation, and every evaluation
\* it made agrees with f(x) = x - c and fp(x) = 1
LinearRun(c) ==
    /\ pc = "returned"
    /\ max_iter >= 1
    /\ \A x \in DOMAIN f : f[x] = Sub(x, c)
    /\ \A x \in DOMAIN fp : fp[x] = One

\* the constants c of the linear functions
CValues == {Flt(i) : i \in -11 .. 2}

\* C1 as stated: with f(x) = x - c and fp(x) = 1 the call returns
\* converged = True after exactly 1 iteration with root = c, whatever x0,
\* eps > 0 and max_iter >= 1.
C1_OneIteration ==
    \A c \in CValues :
        LinearRun(c) => Root = c /\ Count = 1 /\ ConvergedFlag = TRUE

\* C1 amended: with f(x) = x - c and fp(x) = 1 the first pass computes the
\* iterate c with error |x0 - c|; the call converges at iteration 1 when
\* |x0 - c| < eps, otherwise at iteration 2 (error 0) when max_iter >= 2, and
\* otherwise returns unconverged after 1 iteration; the root is c in all cases.
C1_Linear ==
    \A c \in CValues :
        LinearRun(c) =>
            /\ Root = c
            /\ IF Lt(Abs(Sub(x0, c)), eps)
               THEN Count = 1 /\ ConvergedFlag = TRUE
               ELSE IF max_iter >= 2
                    THEN Count = 2 /\ ConvergedFlag = TRUE
                    ELSE Count = 1 /\ ConvergedFlag = FALSE

\* a linear run that needed its second iteration to converge
C1_Witness ==
    \E c \in CValues :
        LinearRun(c) /\ c # x0 /\ Count = 2 /\ ConvergedFlag = TRUE /\ Root = c

\* C2: when f or fp raises a numeric fault at the iterate xn of pass k, the
\* call returns (xn, k, False, trace), the trace being the earlier records
\* followed by (k, xn, nan, nan); nothing leaves the call as an exception,
\* and no step follows a return.
C2_FaultContained ==
    [][ /\ pc = "loop"
        /\ ( ( /\ k' = k + 1
               /\ \/ f'[xn].t \in NumericFaults
                  \/ (xn \in DOMAIN fp' /\ fp'[xn].t \in NumericFaults) )
             => /\ pc' = "returned"
                /\ iters' = Append(iters, <<k + 1, xn, NaN, NaN>>)
                /\ ret' = <<xn, k + 1, FALSE, iters'>> )
      ]_vars

\* fp raised a numeric fault in the third pass or later
C2_Witness ==
    /\ pc = "returned"
    /\ Len(iters) >= 3
    /\ xn \in DOMAIN fp
    /\ fp[xn].t \in NumericFaults
    /\ IsNaN(RecFxn(LastRecord)) /\ IsNaN(RecErr(LastRecord))
    /\ ret = <<xn, Len(iters), FALSE, iters>>

\* C3: when |fp(xn)| < 1e-15 at pass k (fp(xn) = 0 in particular), the call
\* returns (xn, k, False, trace) without dividing, the last record being
\* (k, xn, f(xn), nan).
C3_SingularDerivative ==
    [][ ( /\ pc = "loop"
          /\ k' = k + 1
          /\ IsFinite(f'[xn])
          /\ xn \in DOMAIN fp'
          /\ IsFinite(fp'[xn])
          /\ Lt(Abs(fp'[xn]), Num(1, 1, -15)) )
        => /\ pc' = "returned"
           /\ divs' = divs
           /\ iters' = Append(iters, <<k + 1, xn, f'[xn], NaN>>)
           /\ ret' = <<xn, k + 1, FALSE, iters'>>
      ]_vars

\* a derivative that is tiny but not zero stopped the call after a first pass
C3_Witness ==
    /\ pc = "returned"
    /\ Len(iters) >= 2
    /\ xn \in DOMAIN fp
    /\ fp[xn] = Num(5, 1, -16)
    /\ IsNaN(RecErr(LastRecord))
    /\ RecFxn(LastRecord) = f[xn]
    /\ divs = Len(iters) - 1

\* C4: a call that returns converged = True has a last record whose error is
\* a number below eps, and its root is the new iterate
\* xn - f(xn) / fp(xn) of that record's xn, at distance error from that xn.
C4_ConvergedRoot ==
    (pc = "returned" /\ ConvergedFlag = TRUE) =>
        LET r == LastRecord
        IN  /\ Trace = iters
            /\ IsFinite(RecErr(r))
            /\ Lt(RecErr(r), eps)
            /\ Root = Sub(RecXn(r), Div(RecFxn(r), fp[RecXn(r)]))
            /\ Abs(Sub(Root, RecXn(r))) = RecErr(r)

\* a converged call whose root differs from the last recorded iterate
C4_Witness ==
    /\ pc = "returned"
    /\ ConvergedFlag = TRUE
    /\ Count >= 2
    /\ Root # RecXn(LastRecord)
    /\ RecErr(LastRecord) # Zero

\* the call has returned after at least one evaluation, from x0 = 1, and
\* every evaluation it made agrees with f(x) = x^2 + 1 and fp(x) = 2x
QuadRun ==
    /\ pc = "returned"
    /\ max_iter >= 1
    /\ x0 = One
    /\ \A x \in DOMAIN f : f[x] = Add(Mul(x, x), One)
    /\ \A x \in DOMAIN fp : fp[x] = Mul(Two, x)

\* C5 as stated: for f(x) = x^2 + 1, fp(x) = 2x, x0 = 1 no pass has
\* error < eps, the call returns converged = False, and it ends by exhaustion
\* or by the divergence exit.
C5_NoConvergence ==
    QuadRun =>
        /\ ConvergedFlag = FALSE
        /\ \A i \in 1 .. Len(iters) : ~Lt(RecErr(iters[i]), eps)
        /\ LastLine \in {"Nao convergiu", "Possivel divergencia"}

\* C5 amended: for f(x) = x^2 + 1, fp(x) = 2x, x0 = 1 the first pass has
\* error 1 and new iterate 0.  With eps > 1 the call converges at iteration 1
\* with root 0.  With eps <= 1 no pass has error < eps and the call returns
\* converged = False with root 0: by exhaustion when max_iter = 1, and by the
\* near-zero-derivative exit of iteration 2 otherwise (fp(0) = 0); the
\* divergence exit is never taken.
C5_Quadratic ==
    QuadRun =>
        IF Lt(One, eps)
        THEN ret = <<Zero, 1, TRUE, iters>>
        ELSE /\ ConvergedFlag = FALSE
             /\ Root = Zero
             /\ \A i \in 1 .. Len(iters) : ~Lt(RecErr(iters[i]), eps)
             /\ IF max_iter = 1
                THEN Count = 1 /\ LastLine = "Nao convergiu"
                ELSE /\ Count = 2
                     /\ LastLine = "Derivada muito proxima de zero"
                     /\ IsNaN(RecErr(LastRecord))

\* the run on x^2 + 1 stopped at the zero derivative of its second pass
C5_Witness ==
    /\ QuadRun
    /\ Count = 2
    /\ RecXn(LastRecord) = Zero
    /\ fp[Zero] = Zero
    /\ LastLine = "Derivada muito proxima de zero"

\* no pass of the trace left the loop early: every record has a number for
\* its error, not below eps, and not tenfold the previous one after pass 3
NoEarlyExit ==
    \A i \in 1 .. Len(iters) :
        /\ IsFinite(RecErr(iters[i]))
        /\ ~Lt(RecErr(iters[i]), eps)
        /\ ~(i > 3 /\ Gt(RecErr(iters[i]), Mul(RecErr(iters[i - 1]), Flt(10))))

\* the iterate computed last: x0 before any pass
LastIterate ==
    IF iters = <<>> THEN x0
    ELSE Sub(RecXn(LastRecord), Div(RecFxn(LastRecord), fp[RecXn(LastRecord)]))

\* C6: for max_iter >= 0, a call none of whose passes exits early returns
\* converged = False, the count max_iter, a trace of max_iter records and the
\* last computed iterate as root; for max_iter = 0 that is x0, with an empty
\* trace, and neither f nor fp is evaluated.
C6_Exhaustion ==
    (pc = "returned" /\ max_iter >= 0 /\ NoEarlyExit) =>
        /\ ConvergedFlag = FALSE
        /\ Count = max_iter
        /\ Trace = iters
        /\ Len(Trace) = max_iter
        /\ Root = LastIterate
        /\ max_iter = 0 =>
              Root = x0 /\ Trace = <<>> /\ DOMAIN f = {} /\ DOMAIN fp = {}

\* a call that used up three or more passes
C6_Witness ==
    /\ pc = "returned"
    /\ max_iter >= 3
    /\ NoEarlyExit
    /\ Len(iters) = max_iter
    /\ Root # x0

\* C7: whatever max_iter and whichever exit, the returned count is the
\* length of the returned trace.
C7_CountIsTraceLength == pc = "returned" => Count = Len(Trace)

\* C8: no step of the call writes to an output stream or changes x0, eps or
\* max_iter. The frame on x0, eps and max_iter holds of every action; the
\* prints of lines 57, 63, 75, 79, 84 and 90 break the silence.
C8_Silent ==
    [][out' = out /\ x0' = x0 /\ eps' = eps /\ max_iter' = max_iter]_vars

\* C9: for max_iter >= 1 the trace is append-only and well numbered: a step
\* leaves it alone or appends one record, every pass that is not left by an
\* exception appends one, record i has k = i, and there are at most
\* max_iter records.
C9_Trace ==
    [][ max_iter >= 1 =>
          /\ \/ iters' = iters
             \/ /\ Len(iters') = Len(iters) + 1
                /\ SubSeq(iters', 1, Len(iters)) = iters
          /\ (k' = k + 1 /\ pc' # "raised") => Len(iters') = Len(iters) + 1
          /\ \A i \in 1 .. Len(iters') : RecK(iters'[i]) = i
          /\ Len(iters') <= max_iter
      ]_vars

\* a full trace of four records
C9_Witness ==
    /\ pc = "returned"
    /\ max_iter = 4
    /\ Len(iters) = 4
    /\ RecK(iters[1]) = 1 /\ RecK(iters[4]) = 4

\* C10: a pass k that is not left by an exception takes the divergence exit
\* exactly when its error is a number (no fault, no near-zero derivative),
\* not below eps, k > 3 and the error exceeds ten times the error of pass
\* k - 1; the call then returns (xn1, k, False, trace).  Otherwise, when the
\* error is a number not below eps, the loop goes on with xn = xn1 and
\* err_anterior = error.
C10_Divergence ==
    [][ (pc = "loop" /\ k' = k + 1 /\ pc' # "raised") =>
          LET err == RecErr(iters'[Len(iters')])
              prev == IF Len(iters) = 0 THEN Inf ELSE RecErr(iters[Len(iters)])
              xn1 == Sub(xn, Div(f'[xn], fp'[xn]))
              taken == /\ pc' = "returned"
                       /\ out'[Len(out')].msg = "Possivel divergencia"
              growing == /\ IsFinite(err)
                         /\ ~Lt(err, eps)
                         /\ k' > 3
                         /\ Gt(err, Mul(prev, Flt(10)))
          IN  /\ taken <=> growing
              /\ taken => ret' = <<xn1, k', FALSE, iters'>>
              /\ k' <= 3 => ~taken
              /\ (IsFinite(err) /\ ~Lt(err, eps) /\ ~growing) =>
                    pc' = "loop" /\ xn' = xn1 /\ err_anterior' = err
      ]_vars

\* the divergence exit, taken at the fourth pass after a tenfold jump that
\* the second pass let go
C10_Witness ==
    /\ pc = "returned"
    /\ LastLine = "Possivel divergencia"
    /\ Count = 4
    /\ ConvergedFlag = FALSE
    /\ Gt(RecErr(iters[2]), Mul(RecErr(iters[1]), Flt(10)))

============================================================================
